---- MODULE Spec2Model ----
(***************************************************************************)
(* Model of src/src/actions/index.ts: the seven Astro actions over the     *)
(* CardProfiles and CardDesigns tables.                                    *)
(*                                                                         *)
(* A table is the set of its rows; the primary key (id) is enforced by the *)
(* insert statement.  Every `await db...` of a handler is one database     *)
(* statement and therefore one atomic step.  A handler is modelled twice   *)
(* from the same statement operators: as one action that runs the whole    *)
(* handler (a request that no other request interleaves with), and as a    *)
(* sequence of statement steps of a request slot, between which the other  *)
(* requests may run and at which the process may crash.  The response of a *)
(* request is an output: it is handed to the caller (Return) before the    *)
(* next statement runs, which orders nothing a table can observe.          *)
(*                                                                         *)
(* Of the columns, the model keeps id, userId, the flag, the two dates and *)
(* one text column per table (profileName, designName); the other text     *)
(* columns go through the very same code as these.                         *)
(***************************************************************************)
EXTENDS Naturals, FiniteSets, TLC

\* ------------------------------------------------------------------ bounds
\* the clock (new Date()) takes the values 0..MaxTime
MaxTime == 1
\* the number of requests that may be suspended between two statements
NumReqs == 1

Users == {"u1", "u2"}
\* context.locals.user is absent
NoUser == "anonymous"
Callers == Users \cup {NoUser}
\* z.string() accepts the empty string as an id
ProfileIds == {"", "p1"}
DesignIds == {"d1", "d2"}
\* the values crypto.randomUUID() draws from
ProfileUuids == {"p1"}
DesignUuids == {"d1"}
ProfileNames == {"a", "b"}
DesignNames == {"a"}
\* the value of an optional column that was not supplied
Null == "NULL"
Times == 0..MaxTime
Reqs == 1..NumReqs

VARIABLES profiles, designs, now, reqs, resp
vars == <<profiles, designs, now, reqs, resp>>

\* ------------------------------------------------------------------ rows
\* the rows of CardProfiles and of CardDesigns, over the ids, names and dates given
ProfileRow(PI, PN, T) ==
  [id : PI, userId : Users, profileName : PN, isDefault : BOOLEAN,
   createdAt : T, updatedAt : T]

DesignRow(DI, PI, DN, T) ==
  [id : DI, profileId : PI, userId : Users, designName : DN, isPrimaryDesign : BOOLEAN,
   createdAt : T, updatedAt : T]

\* the tables of the rows given: no two rows of a table share an id
TablesOver(Rows, Ids) ==
  UNION {{{f[i] : i \in S} : f \in {g \in [S -> Rows] : \A i \in S : g[i].id = i}} :
         S \in SUBSET Ids}

\* ------------------------------------------------------------------ inputs
\* An input object is a function from the keys it supplies to their values.
NoFields == [k \in {} |-> TRUE]
Opt(k, S) == {NoFields} \cup {k :> v : v \in S}
Req(k, S) == {k :> v : v \in S}
Has(in, k) == k \in DOMAIN in
\* JavaScript truthiness of an optional boolean and of an optional string
TruthyBool(in, k) == Has(in, k) /\ in[k]
TruthyStr(in, k) == Has(in, k) /\ in[k] # ""
Without(in, K) == [k \in DOMAIN in \ K |-> in[k]]

\* The inputs each schema accepts, over the ids and names a specification draws from.
createProfileInput(PI, PN) ==
  {a @@ b @@ c : a \in Opt("id", PI), b \in Req("profileName", PN),
                 c \in Opt("isDefault", BOOLEAN)}
updateProfileInput(PI, PN) ==
  {a @@ b @@ c : a \in Req("id", PI), b \in Opt("profileName", PN),
                 c \in Opt("isDefault", BOOLEAN)}
deleteProfileInput(PI) == Req("id", PI)
createDesignInput(PI, DI, DN) ==
  {a @@ b @@ c @@ d : a \in Opt("id", DI), b \in Req("profileId", PI),
                      c \in Opt("designName", DN),
                      d \in Opt("isPrimaryDesign", BOOLEAN)}
updateDesignInput(PI, DI, DN) ==
  {a @@ b @@ c @@ d : a \in Req("id", DI), b \in Req("profileId", PI),
                      c \in Opt("designName", DN),
                      d \in Opt("isPrimaryDesign", BOOLEAN)}
listDesignsInput(PI) == Opt("profileId", PI)

\* the input sets of the seven actions
Inputs(PI, DI, PN, DN) ==
  [createProfile |-> createProfileInput(PI, PN),
   updateProfile |-> updateProfileInput(PI, PN),
   deleteProfile |-> deleteProfileInput(PI),
   createDesign |-> createDesignInput(PI, DI, DN),
   updateDesign |-> updateDesignInput(PI, DI, DN),
   listDesigns |-> listDesignsInput(PI)]

\* ------------------------------------------------------------------ responses
\* what a statement hands back: the rows of `returning`, or the error thrown
Ok(rows) == [code |-> "OK", rows |-> rows]
Err(code) == [code |-> code, rows |-> {}]
\* the response of action op to its caller
Respond(op, u, r) == [op |-> op, to |-> u, code |-> r.code, rows |-> r.rows]
NoResp == [op |-> "none", to |-> "nobody", code |-> "NONE", rows |-> {}]
Failures == {"UNAUTHORIZED", "NOT_FOUND", "CONFLICT"}

\* ------------------------------------------------------------------ statements
\* select ... where id = id and userId = u limit 1
\* the lookup without its userId condition
OwnedProfile_anyOwner(P, id, u) == {p \in P : p.id = id}
OwnedProfile(P, id, u) == {p \in P : p.id = id /\ p.userId = u}
OwnedDesign(D, id, u) == {d \in D : d.id = id /\ d.userId = u}

\* clear steps with a wrong condition or a wrong assignment
ClearDefaultAll_otherUsers(P, u, t) ==
  {IF p.userId # u THEN [p EXCEPT !.isDefault = FALSE, !.updatedAt = t] ELSE p : p \in P}
ClearDefaultAll_keepsFlag(P, u, t) ==
  {IF p.userId = u THEN [p EXCEPT !.updatedAt = t] ELSE p : p \in P}
ClearDefaultFlagged_unflagged(P, u, t) ==
  {IF p.userId = u /\ ~p.isDefault
     THEN [p EXCEPT !.isDefault = FALSE, !.updatedAt = t] ELSE p : p \in P}
ClearPrimary_otherUsers(D, pid, u, t) ==
  {IF d.profileId = pid /\ d.userId # u
     THEN [d EXCEPT !.isPrimaryDesign = FALSE, !.updatedAt = t] ELSE d : d \in D}
ClearPrimary_wholeUser(D, pid, u, t) ==
  {IF d.userId = u
     THEN [d EXCEPT !.isPrimaryDesign = FALSE, !.updatedAt = t] ELSE d : d \in D}

\* createProfile's clear step: every profile of the user
ClearDefaultAll(P, u, t) ==
  {IF p.userId = u THEN [p EXCEPT !.isDefault = FALSE, !.updatedAt = t] ELSE p : p \in P}

\* updateProfile's clear step: the flagged profiles of the user
ClearDefaultFlagged(P, u, t) ==
  {IF p.userId = u /\ p.isDefault
     THEN [p EXCEPT !.isDefault = FALSE, !.updatedAt = t] ELSE p : p \in P}

\* createDesign's and updateDesign's clear step: the designs of the user and profile
ClearPrimary(D, pid, u, t) ==
  {IF d.profileId = pid /\ d.userId = u
     THEN [d EXCEPT !.isPrimaryDesign = FALSE, !.updatedAt = t] ELSE d : d \in D}

\* crypto.randomUUID(): one of the ids no row has
FreshIds(T, Uuids) == {i \in Uuids : \A x \in T : x.id # i}
\* input.id ?? crypto.randomUUID()
IdsFor(in, T, Uuids) == IF Has(in, "id") THEN {in.id} ELSE FreshIds(T, Uuids)

NewProfile(u, in, id, t) ==
  [id |-> id, userId |-> u, profileName |-> in.profileName,
   isDefault |-> IF Has(in, "isDefault") THEN in.isDefault ELSE FALSE,
   createdAt |-> t, updatedAt |-> t]

NewDesign(u, in, id, t) ==
  [id |-> id, profileId |-> in.profileId, userId |-> u,
   designName |-> IF Has(in, "designName") THEN in.designName ELSE Null,
   isPrimaryDesign |-> IF Has(in, "isPrimaryDesign") THEN in.isPrimaryDesign ELSE FALSE,
   createdAt |-> t, updatedAt |-> t]

\* insert ... returning: the primary key rejects an id in use
InsertResult(T, row) ==
  IF \E x \in T : x.id = row.id
    THEN [table |-> T, resp |-> Err("CONFLICT")]
    ELSE [table |-> T \cup {row}, resp |-> Ok({row})]

\* an update that writes the text fields left undefined as NULL
Merge_undefinedOverwrites(row, updateData, t) ==
  [k \in DOMAIN row |-> IF k \in DOMAIN updateData THEN updateData[k]
                        ELSE IF k = "updatedAt" THEN t
                        ELSE IF k \in {"profileName", "designName"} THEN Null
                        ELSE row[k]]

\* .set({...updateData, updatedAt: new Date()})
Merge(row, updateData, t) ==
  [k \in DOMAIN row |-> IF k \in DOMAIN updateData THEN updateData[k]
                        ELSE IF k = "updatedAt" THEN t ELSE row[k]]

\* update CardProfiles set ... where id = id and userId = u returning
UpdateProfileResult(P, id, u, updateData, t) ==
  [table |-> {IF p.id = id /\ p.userId = u THEN Merge(p, updateData, t) ELSE p : p \in P},
   resp |-> Ok({Merge(p, updateData, t) : p \in OwnedProfile(P, id, u)})]

\* update CardDesigns set ... where id = id returning
UpdateDesignResult(D, id, updateData, t) ==
  [table |-> {IF d.id = id THEN Merge(d, updateData, t) ELSE d : d \in D},
   resp |-> Ok({Merge(d, updateData, t) : d \in {x \in D : x.id = id}})]

\* ------------------------------------------------------------------ state
Idle == [op |-> "none", pc |-> "idle"]

Init ==
  /\ profiles = {}
  /\ designs = {}
  /\ now = 0
  /\ reqs = [r \in Reqs |-> Idle]
  /\ resp = NoResp

\* the clock read by new Date() advances
Tick ==
  /\ now < MaxTime
  /\ now' = now + 1
  /\ resp' = NoResp
  /\ UNCHANGED <<profiles, designs, reqs>>

\* requireUser throws before any statement
requireUser(u) == u # NoUser

Unauthorized(op) ==
  /\ resp' = Respond(op, NoUser, Err("UNAUTHORIZED"))
  /\ UNCHANGED <<profiles, designs, now, reqs>>

\* ------------------------------------------------------------------ handlers
\* What each handler does to its table and returns when no other request runs
\* between its statements (u is an authenticated user).
createProfileRun(P, u, in, id, t) ==
  LET P1 == IF TruthyBool(in, "isDefault") THEN ClearDefaultAll(P, u, t) ELSE P
  IN  InsertResult(P1, NewProfile(u, in, id, t))

updateProfileRun(P, u, in, t) ==
  LET rest == Without(in, {"id"})
      existing == OwnedProfile(P, in.id, u)
      P1 == IF TruthyBool(rest, "isDefault") THEN ClearDefaultFlagged(P, u, t) ELSE P
  IN  IF existing = {} THEN [table |-> P, resp |-> Err("NOT_FOUND")]
      ELSE IF DOMAIN rest = {} THEN [table |-> P1, resp |-> Ok(existing)]
      ELSE UpdateProfileResult(P1, in.id, u, rest, t)

\* a delete without its id condition
deleteProfileRun_allOfUser(P, u, in) ==
  LET deleted == {p \in P : p.userId = u}
  IN  IF OwnedProfile(P, in.id, u) = {} THEN [table |-> P, resp |-> Err("NOT_FOUND")]
      ELSE [table |-> P \ deleted, resp |-> Ok(deleted)]

deleteProfileRun(P, u, in) ==
  LET deleted == OwnedProfile(P, in.id, u)
  IN  IF deleted = {} THEN [table |-> P, resp |-> Err("NOT_FOUND")]
      ELSE [table |-> P \ deleted, resp |-> Ok(deleted)]

listProfilesRun(P, u) == Ok({p \in P : p.userId = u})

createDesignRun(P, D, u, in, id, t) ==
  LET D1 == IF TruthyBool(in, "isPrimaryDesign")
              THEN ClearPrimary(D, in.profileId, u, t) ELSE D
  IN  IF OwnedProfile(P, in.profileId, u) = {}
        THEN [table |-> D, resp |-> Err("NOT_FOUND")]
        ELSE InsertResult(D1, NewDesign(u, in, id, t))

\* existing, unless it is missing or of another profile
DesignOfProfile(D, id, u, pid) == {d \in OwnedDesign(D, id, u) : d.profileId = pid}

updateDesignRun(P, D, u, in, t) ==
  LET rest == Without(in, {"id", "profileId"})
      existing == DesignOfProfile(D, in.id, u, in.profileId)
      D1 == IF TruthyBool(rest, "isPrimaryDesign")
              THEN ClearPrimary(D, in.profileId, u, t) ELSE D
  IN  IF OwnedProfile(P, in.profileId, u) = {} \/ existing = {}
        THEN [table |-> D, resp |-> Err("NOT_FOUND")]
      ELSE IF DOMAIN rest = {} THEN [table |-> D1, resp |-> Ok(existing)]
      ELSE UpdateDesignResult(D1, in.id, rest, t)

\* new Set(profiles.map((p) => p.id))
AllowedProfileIds(P, u) == {p.id : p \in {x \in P : x.userId = u}}

\* the filter of listDesigns over the designs selected for the user
FilterDesigns(D, u, in, allowed) ==
  IF TruthyStr(in, "profileId")
    THEN {d \in D : d.userId = u /\ d.profileId = in.profileId}
    ELSE {d \in D : d.userId = u /\ d.profileId \in allowed}

listDesignsRun(P, D, u, in) ==
  LET allowed == AllowedProfileIds(P, u)
  IN  IF TruthyStr(in, "profileId") /\ in.profileId \notin allowed
        THEN Err("NOT_FOUND")
        ELSE Ok(FilterDesigns(D, u, in, allowed))

\* ------------------------------------------------------------------ requests that run alone
createProfile(u, in) ==
  IF ~requireUser(u) THEN Unauthorized("createProfile")
  ELSE \E id \in IdsFor(in, profiles, ProfileUuids) :
         LET res == createProfileRun(profiles, u, in, id, now)
         IN  /\ profiles' = res.table
             /\ resp' = Respond("createProfile", u, res.resp)
             /\ UNCHANGED <<designs, now, reqs>>

updateProfile(u, in) ==
  IF ~requireUser(u) THEN Unauthorized("updateProfile")
  ELSE LET res == updateProfileRun(profiles, u, in, now)
       IN  /\ profiles' = res.table
           /\ resp' = Respond("updateProfile", u, res.resp)
           /\ UNCHANGED <<designs, now, reqs>>

listProfiles(u) ==
  IF ~requireUser(u) THEN Unauthorized("listProfiles")
  ELSE /\ resp' = Respond("listProfiles", u, listProfilesRun(profiles, u))
       /\ UNCHANGED <<profiles, designs, now, reqs>>

deleteProfile(u, in) ==
  IF ~requireUser(u) THEN Unauthorized("deleteProfile")
  ELSE LET res == deleteProfileRun(profiles, u, in)
       IN  /\ profiles' = res.table
           /\ resp' = Respond("deleteProfile", u, res.resp)
           /\ UNCHANGED <<designs, now, reqs>>

createDesign(u, in) ==
  IF ~requireUser(u) THEN Unauthorized("createDesign")
  ELSE \E id \in IdsFor(in, designs, DesignUuids) :
         LET res == createDesignRun(profiles, designs, u, in, id, now)
         IN  /\ designs' = res.table
             /\ resp' = Respond("createDesign", u, res.resp)
             /\ UNCHANGED <<profiles, now, reqs>>

updateDesign(u, in) ==
  IF ~requireUser(u) THEN Unauthorized("updateDesign")
  ELSE LET res == updateDesignRun(profiles, designs, u, in, now)
       IN  /\ designs' = res.table
           /\ resp' = Respond("updateDesign", u, res.resp)
           /\ UNCHANGED <<profiles, now, reqs>>

listDesigns(u, in) ==
  IF ~requireUser(u) THEN Unauthorized("listDesigns")
  ELSE /\ resp' = Respond("listDesigns", u, listDesignsRun(profiles, designs, u, in))
       /\ UNCHANGED <<profiles, designs, now, reqs>>

\* the caller is not signed in: requireUser throws whatever the input is
AnyOne(S) == {CHOOSE x \in S : TRUE}

\* The requests that run alone, by the callers US with the inputs I.
Requests(US, I) ==
  \/ \E u \in US, in \in I.createProfile : createProfile(u, in)
  \/ \E u \in US, in \in I.updateProfile : updateProfile(u, in)
  \/ \E u \in US : listProfiles(u)
  \/ \E u \in US, in \in I.deleteProfile : deleteProfile(u, in)
  \/ \E u \in US, in \in I.createDesign : createDesign(u, in)
  \/ \E u \in US, in \in I.updateDesign : updateDesign(u, in)
  \/ \E u \in US, in \in I.listDesigns : listDesigns(u, in)
  \/ \E in \in AnyOne(I.createProfile) : createProfile(NoUser, in)
  \/ \E in \in AnyOne(I.updateProfile) : updateProfile(NoUser, in)
  \/ listProfiles(NoUser)
  \/ \E in \in AnyOne(I.deleteProfile) : deleteProfile(NoUser, in)
  \/ \E in \in AnyOne(I.createDesign) : createDesign(NoUser, in)
  \/ \E in \in AnyOne(I.updateDesign) : updateDesign(NoUser, in)
  \/ \E in \in AnyOne(I.listDesigns) : listDesigns(NoUser, in)

\* the response is handed to the caller
Return ==
  /\ resp # NoResp
  /\ resp' = NoResp
  /\ UNCHANGED <<profiles, designs, now, reqs>>

\* ------------------------------------------------------------------ one request at a time
SeqInputs == Inputs(ProfileIds, DesignIds, ProfileNames, DesignNames)

SeqNext ==
  \/ resp = NoResp /\ Requests(Users, SeqInputs)
  \/ Return

\* every request runs to completion before the next one starts
SpecSeq == Init /\ [][SeqNext]_vars

\* ------------------------------------------------------------------ one user, with the clock
ClockUsers == {"u1"}
ClockProfileIds == {"p1"}
ClockInputs == Inputs(ClockProfileIds, DesignIds, ProfileNames, DesignNames)

ClockNext ==
  \/ resp = NoResp /\ Tick
  \/ resp = NoResp /\ Requests(ClockUsers, ClockInputs)
  \/ Return

SpecClock == Init /\ [][ClockNext]_vars

\* ------------------------------------------------------------------ statement by statement
\* A request of slot r runs one database statement per step.  A handler that ends
\* at its first statement is the request that runs alone, above; the steps below
\* are those of the handlers that go on to a second statement.
Suspend(r, op, pc, u, in) ==
  reqs' = [reqs EXCEPT ![r] = [op |-> op, pc |-> pc, user |-> u, in |-> in]]
Goto(r, pc) == reqs' = [reqs EXCEPT ![r].pc = pc]
Finish(r) == reqs' = [reqs EXCEPT ![r] = Idle]
At(r, op, pc) == reqs[r].pc = pc /\ reqs[r].op = op
Reply(r, res) == resp' = Respond(reqs[r].op, reqs[r].user, res)

createProfileClear(r, u, in) ==
  /\ reqs[r] = Idle
  /\ TruthyBool(in, "isDefault")
  /\ profiles' = ClearDefaultAll(profiles, u, now)
  /\ Suspend(r, "createProfile", "insert", u, in)
  /\ resp' = NoResp
  /\ UNCHANGED <<designs, now>>

createProfileInsert(r) ==
  /\ At(r, "createProfile", "insert")
  /\ \E id \in IdsFor(reqs[r].in, profiles, ProfileUuids) :
       LET res == InsertResult(profiles, NewProfile(reqs[r].user, reqs[r].in, id, now))
       IN  /\ profiles' = res.table
           /\ Reply(r, res.resp)
  /\ Finish(r)
  /\ UNCHANGED <<designs, now>>

updateProfileSelect(r, u, in) ==
  /\ reqs[r] = Idle
  /\ OwnedProfile(profiles, in.id, u) # {}
  /\ DOMAIN Without(in, {"id"}) # {}
  /\ Suspend(r, "updateProfile", IF TruthyBool(in, "isDefault") THEN "clear" ELSE "update",
             u, in)
  /\ resp' = NoResp
  /\ UNCHANGED <<profiles, designs, now>>

updateProfileClear(r) ==
  /\ At(r, "updateProfile", "clear")
  /\ profiles' = ClearDefaultFlagged(profiles, reqs[r].user, now)
  /\ Goto(r, "update")
  /\ resp' = NoResp
  /\ UNCHANGED <<designs, now>>

updateProfileUpdate(r) ==
  /\ At(r, "updateProfile", "update")
  /\ LET res == UpdateProfileResult(profiles, reqs[r].in.id, reqs[r].user,
                                    Without(reqs[r].in, {"id"}), now)
     IN  /\ profiles' = res.table
         /\ Reply(r, res.resp)
  /\ Finish(r)
  /\ UNCHANGED <<designs, now>>

createDesignSelect(r, u, in) ==
  /\ reqs[r] = Idle
  /\ OwnedProfile(profiles, in.profileId, u) # {}
  /\ Suspend(r, "createDesign", IF TruthyBool(in, "isPrimaryDesign") THEN "clear" ELSE "insert",
             u, in)
  /\ resp' = NoResp
  /\ UNCHANGED <<profiles, designs, now>>

createDesignClear(r) ==
  /\ At(r, "createDesign", "clear")
  /\ designs' = ClearPrimary(designs, reqs[r].in.profileId, reqs[r].user, now)
  /\ Goto(r, "insert")
  /\ resp' = NoResp
  /\ UNCHANGED <<profiles, now>>

createDesignInsert(r) ==
  /\ At(r, "createDesign", "insert")
  /\ \E id \in IdsFor(reqs[r].in, designs, DesignUuids) :
       LET res == InsertResult(designs, NewDesign(reqs[r].user, reqs[r].in, id, now))
       IN  /\ designs' = res.table
           /\ Reply(r, res.resp)
  /\ Finish(r)
  /\ UNCHANGED <<profiles, now>>

updateDesignSelectProfile(r, u, in) ==
  /\ reqs[r] = Idle
  /\ OwnedProfile(profiles, in.profileId, u) # {}
  /\ Suspend(r, "updateDesign", "select", u, in)
  /\ resp' = NoResp
  /\ UNCHANGED <<profiles, designs, now>>

updateDesignSelect(r) ==
  /\ At(r, "updateDesign", "select")
  /\ LET in == reqs[r].in
         rest == Without(in, {"id", "profileId"})
         existing == DesignOfProfile(designs, in.id, reqs[r].user, in.profileId)
     IN  IF existing = {} THEN Reply(r, Err("NOT_FOUND")) /\ Finish(r)
         ELSE IF DOMAIN rest = {} THEN Reply(r, Ok(existing)) /\ Finish(r)
         ELSE /\ resp' = NoResp
              /\ Goto(r, IF TruthyBool(rest, "isPrimaryDesign") THEN "clear"
                         ELSE "update")
  /\ UNCHANGED <<profiles, designs, now>>

updateDesignClear(r) ==
  /\ At(r, "updateDesign", "clear")
  /\ designs' = ClearPrimary(designs, reqs[r].in.profileId, reqs[r].user, now)
  /\ Goto(r, "update")
  /\ resp' = NoResp
  /\ UNCHANGED <<profiles, now>>

updateDesignUpdate(r) ==
  /\ At(r, "updateDesign", "update")
  /\ LET res == UpdateDesignResult(designs, reqs[r].in.id,
                                   Without(reqs[r].in, {"id", "profileId"}), now)
     IN  /\ designs' = res.table
         /\ Reply(r, res.resp)
  /\ Finish(r)
  /\ UNCHANGED <<profiles, now>>

listDesignsSelectProfiles(r, u, in) ==
  /\ reqs[r] = Idle
  /\ ~(TruthyStr(in, "profileId") /\ in.profileId \notin AllowedProfileIds(profiles, u))
  /\ reqs' = [reqs EXCEPT ![r] = [op |-> "listDesigns", pc |-> "select", user |-> u, in |-> in,
                                   allowed |-> AllowedProfileIds(profiles, u)]]
  /\ resp' = NoResp
  /\ UNCHANGED <<profiles, designs, now>>

listDesignsSelect(r) ==
  /\ At(r, "listDesigns", "select")
  /\ Reply(r, Ok(FilterDesigns(designs, reqs[r].user, reqs[r].in, reqs[r].allowed)))
  /\ Finish(r)
  /\ UNCHANGED <<profiles, designs, now>>

\* the process dies between two statements of the request: no statement is undone
Crash(r) ==
  /\ reqs[r] # Idle
  /\ Finish(r)
  /\ Reply(r, Err("CRASHED"))
  /\ UNCHANGED <<profiles, designs, now>>

Steps(US, I) ==
  \E r \in Reqs :
    \/ \E u \in US, in \in I.createProfile : createProfileClear(r, u, in)
    \/ createProfileInsert(r)
    \/ \E u \in US, in \in I.updateProfile : updateProfileSelect(r, u, in)
    \/ updateProfileClear(r)
    \/ updateProfileUpdate(r)
    \/ \E u \in US, in \in I.createDesign : createDesignSelect(r, u, in)
    \/ createDesignClear(r)
    \/ createDesignInsert(r)
    \/ \E u \in US, in \in I.updateDesign : updateDesignSelectProfile(r, u, in)
    \/ updateDesignSelect(r)
    \/ updateDesignClear(r)
    \/ updateDesignUpdate(r)
    \/ \E u \in US, in \in I.listDesigns : listDesignsSelectProfiles(r, u, in)
    \/ listDesignsSelect(r)
    \/ Crash(r)

\* ------------------------------------------------------------------ interleaved requests
\* the text columns play no part between the statements: one profile name, no design name
ConcProfileNames == {"a"}
ConcDesignNames == {}

ConcInputs == Inputs(ProfileIds, DesignIds, ConcProfileNames, ConcDesignNames)

\* two users, one design id; the users are interchangeable: the suspended
\* requests are those of one of them
IsoDesignIds == {"d1"}
IsoInputs == Inputs(ProfileIds, IsoDesignIds, ConcProfileNames, ConcDesignNames)
SuspendedUsers == {"u1"}

Next ==
  \/ resp = NoResp /\ Requests(Users, IsoInputs)
  \/ resp = NoResp /\ Steps(SuspendedUsers, IsoInputs)
  \/ Return

Spec == Init /\ [][Next]_vars

\* ------------------------------------------------------------------ one user, interleaved
RaceUsers == {"u1"}
RaceNext ==
  \/ resp = NoResp /\ Requests(RaceUsers, ConcInputs)
  \/ resp = NoResp /\ Steps(RaceUsers, ConcInputs)
  \/ Return

SpecRace == Init /\ [][RaceNext]_vars

\* ------------------------------------------------------------------ one request from any state
\* The tables start in any state (the interleavings of Spec reach them: a scope may
\* hold no flagged record or several), written before the clock advanced, and one
\* request runs alone.  Either the profiles are any and there is no design, or the
\* designs are any and refer to the one profile there may be.
AnyProfileIds == {"", "p1", "p2"}
AnyDesignIds == {"d1", "d2", "d3"}
AnyDesignProfileIds == {"", "p1"}
AnyInputs == Inputs(AnyProfileIds, AnyDesignIds, ConcProfileNames, ConcDesignNames)

InitAny ==
  /\ \/ /\ profiles \in TablesOver(ProfileRow(AnyProfileIds, ConcProfileNames, {0}),
                                   AnyProfileIds)
        /\ designs = {}
     \/ /\ profiles \in TablesOver(ProfileRow({"p1"}, ConcProfileNames, {0}), {"p1"})
        /\ designs \in TablesOver(DesignRow(AnyDesignIds, AnyDesignProfileIds, {Null}, {0}),
                                  AnyDesignIds)
  /\ now = 1
  /\ reqs = [r \in Reqs |-> Idle]
  /\ resp = NoResp

AnyNext == resp = NoResp /\ Requests(Users, AnyInputs)

SpecAny == InitAny /\ [][AnyNext]_vars

\* ================================================================== properties
DefaultsOf(P, u) == {p \in P : p.userId = u /\ p.isDefault}
PrimariesOf(D, u, pid) ==
  {d \in D : d.userId = u /\ d.profileId = pid /\ d.isPrimaryDesign}
ProfileOps == {"createProfile", "updateProfile"}
DesignOps == {"createDesign", "updateDesign"}

\* C1: when every request runs alone, whatever requests ran (the failed ones
\* included), no user has two CardProfile rows with isDefault = true.
C1_OneDefaultPerUser ==
  \A u \in Users : Cardinality(DefaultsOf(profiles, u)) <= 1

\* a create or update has just flagged a profile of a user who has another one
C1_Witness ==
  /\ resp.op \in ProfileOps
  /\ resp.code = "OK"
  /\ \E r \in resp.rows :
       /\ r.isDefault
       /\ r \in profiles
       /\ \E q \in profiles : q.userId = r.userId /\ q.id # r.id

\* C2: when every request runs alone, no user and profile id have two CardDesign
\* rows with isPrimaryDesign = true, the profile deleted and created again or not.
C2_OnePrimaryPerProfile ==
  \A u \in Users, pid \in ProfileIds : Cardinality(PrimariesOf(designs, u, pid)) <= 1

\* a create or update has just flagged a design of a user and profile that have another
C2_Witness ==
  /\ resp.op \in DesignOps
  /\ resp.code = "OK"
  /\ \E r \in resp.rows :
       /\ r.isPrimaryDesign
       /\ r \in designs
       /\ \E q \in designs : q.userId = r.userId /\ q.profileId = r.profileId /\ q.id # r.id

\* what the specification has listDesigns return
ListedDesigns(P, D, u, in) ==
  IF Has(in, "profileId")
    THEN IF in.profileId \notin AllowedProfileIds(P, u) THEN Err("NOT_FOUND")
         ELSE Ok({d \in D : d.userId = u /\ d.profileId = in.profileId})
    ELSE Ok({d \in D : d.userId = u /\ d.profileId \in AllowedProfileIds(P, u)})

\* C6: listDesigns by user u with a profileId that is not the id of a profile of u
\* fails with NOT_FOUND, with one of u's returns u's designs of that profile, with
\* none returns u's designs of u's profiles; listProfiles returns u's profiles.
C6_ListsAsSpecified ==
  [][/\ resp'.op = "listDesigns" =>
          \A u \in Users, in \in SeqInputs.listDesigns :
            listDesigns(u, in) =>
              resp' = Respond("listDesigns", u, ListedDesigns(profiles, designs, u, in))
     /\ resp'.op = "listProfiles" =>
          \A u \in Users :
            listProfiles(u) =>
              resp' = Respond("listProfiles", u, Ok({p \in profiles : p.userId = u}))]_vars

C10_FailureWritesNothing ==
  [][resp'.code \in Failures => (profiles' = profiles /\ designs' = designs)]_vars

\* the rows of the table that are not in the scope
OutsideUser(T, u) == {x \in T : x.userId # u}
OutsideProfile(D, u, pid) == {d \in D : d.userId # u \/ d.profileId # pid}

\* R is flagged, alone in the scope of user u, and nothing else is touched
ProfileFlagged(u, rows) ==
  /\ \E R \in rows :
       /\ rows = {R}
       /\ R \in profiles'
       /\ R.userId = u
       /\ DefaultsOf(profiles', u) = {R}
  /\ OutsideUser(profiles', u) = OutsideUser(profiles, u)
  /\ designs' = designs

DesignFlagged(u, pid, rows) ==
  /\ \E R \in rows :
       /\ rows = {R}
       /\ R \in designs'
       /\ R.userId = u
       /\ R.profileId = pid
       /\ PrimariesOf(designs', u, pid) = {R}
  /\ OutsideProfile(designs', u, pid) = OutsideProfile(designs, u, pid)
  /\ profiles' = profiles

\* C3: from any state, a create or update that runs alone and succeeds with the
\* flag set to true on record R ends with R flagged and every other record of
\* R's scope unflagged (the user for a profile, the user and profile for a
\* design), and changes no record outside that scope.
C3_FlagSetIsExclusive ==
  [][/\ (resp'.op = "createProfile" /\ resp'.code = "OK") =>
          \A u \in Users, in \in AnyInputs.createProfile :
            (TruthyBool(in, "isDefault") /\ createProfile(u, in)) =>
              ProfileFlagged(u, resp'.rows)
     /\ (resp'.op = "updateProfile" /\ resp'.code = "OK") =>
          \A u \in Users, in \in AnyInputs.updateProfile :
            (TruthyBool(in, "isDefault") /\ updateProfile(u, in)) =>
              ProfileFlagged(u, resp'.rows)
     /\ (resp'.op = "createDesign" /\ resp'.code = "OK") =>
          \A u \in Users, in \in AnyInputs.createDesign :
            (TruthyBool(in, "isPrimaryDesign") /\ createDesign(u, in)) =>
              DesignFlagged(u, in.profileId, resp'.rows)
     /\ (resp'.op = "updateDesign" /\ resp'.code = "OK") =>
          \A u \in Users, in \in AnyInputs.updateDesign :
            (TruthyBool(in, "isPrimaryDesign") /\ updateDesign(u, in)) =>
              DesignFlagged(u, in.profileId, resp'.rows)]_vars

\* an update has just flagged a profile of a user whose two other profiles were
\* both flagged before it (the clear step of the update stamped them)
C3_Witness ==
  /\ resp.op = "updateProfile"
  /\ resp.code = "OK"
  /\ \E R \in resp.rows :
       /\ R.isDefault
       /\ Cardinality({q \in profiles : /\ q.userId = R.userId
                                        /\ q.id # R.id
                                        /\ ~q.isDefault
                                        /\ q.updatedAt = now
                                        /\ q.createdAt < now}) = 2

\* the user a step acts for: the caller answered, or the request suspended
OthersUntouched(u) ==
  /\ OutsideUser(profiles', u) = OutsideUser(profiles, u)
  /\ OutsideUser(designs', u) = OutsideUser(designs, u)
OwnedByAnother(T, id, u) == \E x \in T : x.id = id /\ x.userId # u

\* C4: under any interleaving, a step of a request of user u changes, creates and
\* deletes no row of another user and returns none; updateProfile, deleteProfile,
\* createDesign and updateDesign whose ownership lookup meets a profile or design
\* of another user fail with NOT_FOUND.
C4_UsersAreIsolated ==
  [][/\ resp' # NoResp =>
          /\ resp'.to \in Users => OthersUntouched(resp'.to)
          /\ resp'.to \notin Users => UNCHANGED <<profiles, designs>>
          /\ \A row \in resp'.rows : row.userId = resp'.to
     /\ \A r \in Reqs : reqs'[r] # Idle /\ reqs'[r] # reqs[r] => OthersUntouched(reqs'[r].user)
     /\ (resp'.op = "updateProfile" /\ UNCHANGED reqs) =>
          \A u \in Users, in \in IsoInputs.updateProfile :
            (updateProfile(u, in) /\ OwnedByAnother(profiles, in.id, u)) =>
              resp'.code = "NOT_FOUND"
     /\ (resp'.op = "deleteProfile" /\ UNCHANGED reqs) =>
          \A u \in Users, in \in IsoInputs.deleteProfile :
            (deleteProfile(u, in) /\ OwnedByAnother(profiles, in.id, u)) =>
              resp'.code = "NOT_FOUND"
     /\ (resp'.op = "createDesign" /\ UNCHANGED reqs) =>
          \A u \in Users, in \in IsoInputs.createDesign :
            (createDesign(u, in) /\ OwnedByAnother(profiles, in.profileId, u)) =>
              resp'.code = "NOT_FOUND"
     /\ (resp'.op = "updateDesign" /\ UNCHANGED reqs) =>
          \A u \in Users, in \in IsoInputs.updateDesign :
            (/\ updateDesign(u, in)
             /\ \/ OwnedByAnother(profiles, in.profileId, u)
                \/ OwnedByAnother(designs, in.id, u)) =>
              resp'.code = "NOT_FOUND"
     /\ \A r \in Reqs :
          (updateDesignSelect(r) /\ OwnedByAnother(designs, reqs[r].in.id, reqs[r].user)) =>
            resp'.code = "NOT_FOUND"]_vars

\* while a request is suspended, a delete by u1 of an id that is a profile of u2
\* has just failed with NOT_FOUND
C4_Witness ==
  /\ resp = Respond("deleteProfile", "u1", Err("NOT_FOUND"))
  /\ {p.id : p \in profiles} = ProfileIds
  /\ \A p \in profiles : p.userId = "u2"
  /\ \E d \in designs : d.userId = "u2"
  /\ \E r \in Reqs : reqs[r] # Idle

\* the row after an update: the fields supplied, updatedAt, and the rest as stored
Updated(old, new, rest) ==
  /\ DOMAIN new = DOMAIN old
  /\ \A k \in DOMAIN old :
       new[k] = IF k \in DOMAIN rest THEN rest[k]
                ELSE IF k = "updatedAt" THEN now ELSE old[k]

PartialUpdate(table, table2, existing, rest, rows) ==
  IF DOMAIN rest = {}
    THEN /\ profiles' = profiles
         /\ designs' = designs
         /\ rows = existing
    ELSE \E old \in existing, new \in rows :
           /\ rows = {new}
           /\ new \in table2
           /\ Updated(old, new, rest)

\* C5: a successful updateProfile or updateDesign leaves every field of the row
\* that the input does not supply as stored (updatedAt apart, which is set), and
\* with no field supplied beside the identifiers writes nothing and returns the
\* stored row.
C5_UpdateKeepsTheRest ==
  [][/\ (resp'.op = "updateProfile" /\ resp'.code = "OK") =>
          \A u \in ClockUsers, in \in ClockInputs.updateProfile :
            updateProfile(u, in) =>
              PartialUpdate(profiles, profiles', OwnedProfile(profiles, in.id, u),
                            Without(in, {"id"}), resp'.rows)
     /\ (resp'.op = "updateDesign" /\ resp'.code = "OK") =>
          \A u \in ClockUsers, in \in ClockInputs.updateDesign :
            updateDesign(u, in) =>
              PartialUpdate(designs, designs', OwnedDesign(designs, in.id, u),
                            Without(in, {"id", "profileId"}), resp'.rows)]_vars

\* an update after the clock advanced has just renamed a design and kept its flag
C5_Witness ==
  /\ resp.op = "updateDesign"
  /\ resp.code = "OK"
  /\ \E R \in resp.rows :
       /\ R.createdAt < R.updatedAt
       /\ R.designName # Null
       /\ R.isPrimaryDesign
       /\ \E p \in profiles : p.id = R.profileId /\ p.updatedAt < R.updatedAt

\* a step takes the flagged records of a scope to two or more
RaisedToTwo(before, after) ==
  Cardinality(after) >= 2 /\ Cardinality(after) > Cardinality(before)

\* the step is the insert or update of a request of u that set the flag and was
\* suspended since an earlier statement
LateWrite(r, ops, u, flag) ==
  /\ reqs[r].pc \in {"insert", "update"}
  /\ reqs[r].op \in ops
  /\ reqs[r].user = u
  /\ TruthyBool(reqs[r].in, flag)
  /\ reqs'[r] = Idle
  /\ resp'.code = "OK"

\* C7: the clear and the insert/update of a flag-setting request are two steps,
\* and a second flagged record in a scope only ever appears at the insert/update
\* step of such a request that other requests of the user overtook; the state
\* with two flagged records in one scope is reachable (C7_Witness).
C7_SecondFlagByLateWrite ==
  [][/\ \A u \in Users :
          RaisedToTwo(DefaultsOf(profiles, u), DefaultsOf(profiles', u)) =>
            \E r \in Reqs : LateWrite(r, ProfileOps, u, "isDefault")
     /\ \A u \in Users, pid \in ProfileIds :
          RaisedToTwo(PrimariesOf(designs, u, pid), PrimariesOf(designs', u, pid)) =>
            \E r \in Reqs : /\ LateWrite(r, DesignOps, u, "isPrimaryDesign")
                            /\ reqs[r].in.profileId = pid]_vars

\* two default profiles of one user, and two primary designs of one of them
C7_Witness ==
  \E u \in Users, pid \in ProfileIds :
    /\ Cardinality(DefaultsOf(profiles, u)) = 2
    /\ Cardinality(PrimariesOf(designs, u, pid)) = 2
    /\ \E p \in profiles : p.id = pid /\ p.userId = u

\* the flagged records of the scope of the request of slot r
FlaggedInScope(P, D, q) ==
  IF q.op \in ProfileOps THEN DefaultsOf(P, q.user)
  ELSE PrimariesOf(D, q.user, q.in.profileId)

\* the request of slot r has run its clear step and not its insert or update
PastClear(q) ==
  \/ q.op = "createProfile" /\ q.pc = "insert"
  \/ q.op = "updateProfile" /\ q.pc = "update" /\ TruthyBool(q.in, "isDefault")
  \/ q.op = "createDesign" /\ q.pc = "insert" /\ TruthyBool(q.in, "isPrimaryDesign")
  \/ q.op = "updateDesign" /\ q.pc = "update" /\ TruthyBool(q.in, "isPrimaryDesign")

====
